---- MODULE Spec2Model ----
(***************************************************************************)
(* The Avalon rules engine (src/avalon/game.py, class AvalonGame) as a     *)
(* state machine.  The AvalonGame object is the record-valued variable     *)
(* `game`, whose fields carry the attribute names of the class.  Every     *)
(* public method is an operator from (game, arguments) to a record         *)
(* [ok, g]: the value the method returns and the object after the call.    *)
(* The actions apply these operators to inputs drawn from bounded sets.    *)
(***************************************************************************)
EXTENDS Integers, Sequences, FiniteSets, TLC

\* game: the AvalonGame object; late_calls: how many calls the callers have
\* made out of the lifecycle's order; active_games: the channels that have an
\* entry in the registry of the bot; pending: the members whose mission vote
\* handler has recorded its ballot and waits for its reply to be sent
VARIABLES game, late_calls, active_games, pending

vars == <<game, late_calls, active_games, pending>>

(***************************************************************************)
(* Bounds of the model (not program constants).                            *)
(***************************************************************************)
\* Spec: user ids are 1..MaxId, so a roster has at most MaxId players
MaxId == 6
\* SpecRound: rosters of MIN_PLAYERS..MaxSeats players
MaxSeats == 8
\* random.shuffle in assign_roles yields one of the first MaxShuffle rotations
MaxShuffle == 2
\* calls made out of the lifecycle's order (a join after the start, a second
\* assign_roles) per behaviour
MaxLateCalls == 1
\* Spec: proposals are voted down only in rounds 1..MaxRejectRound
MaxRejectRound == 1
\* SpecBot: mission vote handlers that wait for their reply at the same time
MaxPending == 1

(***************************************************************************)
(* src/avalon/config.py                                                    *)
(***************************************************************************)
MIN_PLAYERS == 5
MAX_PLAYERS == 10

PLAYER_COUNTS ==
    (5 :> [good |-> 3, evil |-> 2]) @@ (6 :> [good |-> 4, evil |-> 2]) @@
    (7 :> [good |-> 4, evil |-> 3]) @@ (8 :> [good |-> 5, evil |-> 3]) @@
    (9 :> [good |-> 6, evil |-> 3]) @@ (10 :> [good |-> 6, evil |-> 4])

MISSION_SIZES ==
    (5 :> <<2, 3, 2, 3, 3>>) @@ (6 :> <<2, 3, 4, 3, 4>>) @@
    (7 :> <<2, 3, 3, 4, 4>>) @@ (8 :> <<3, 4, 4, 5, 5>>) @@
    (9 :> <<3, 4, 4, 5, 5>>) @@ (10 :> <<3, 4, 4, 5, 5>>)

\* 0-indexed mission numbers, as in the source
TWO_FAIL_MISSIONS == (7 :> {3}) @@ (8 :> {3}) @@ (9 :> {3}) @@ (10 :> {3})

ROLES ==
    [MERLIN   |-> [name |-> "Merlin",            team |-> "good"],
     PERCIVAL |-> [name |-> "Percival",          team |-> "good"],
     SERVANT  |-> [name |-> "Servant of Arthur", team |-> "good"],
     ASSASSIN |-> [name |-> "Assassin",          team |-> "evil"],
     MORGANA  |-> [name |-> "Morgana",           team |-> "evil"],
     MORDRED  |-> [name |-> "Mordred",           team |-> "evil"],
     MINION   |-> [name |-> "Minion of Mordred", team |-> "evil"]]

(***************************************************************************)
(* src/avalon/game.py: enumerations, Player, AvalonGame.__init__           *)
(***************************************************************************)
GameState == {"lobby", "role_assignment", "team_proposal", "team_voting",
              "mission", "assassination", "finished"}

MissionResult == {"pending", "success", "fail"}

\* None, as the value of an Optional[str]
None == "none"

\* None, as the value of an Optional[int] (user ids are positive)
NoId == 0

\* Player(user_id, username): role and team start as None
Player(user_id) == [user_id |-> user_id, role |-> None, team |-> None]

\* Player.username: the display name the callers give the user.  It is
\* "Player<i>" in the tests; display names are taken to be distinct.
username(user_id) == <<"Player", user_id>>

is_evil(p) == p.team = "evil"

is_good(p) == p.team = "good"

NewGame ==
    [players              |-> << >>,
     state                |-> "lobby",
     current_round        |-> 1,
     current_leader_index |-> 0,
     vote_track           |-> 0,
     missions             |-> [i \in 1..5 |-> "pending"],
     proposed_team        |-> << >>,
     team_votes           |-> << >>,
     mission_votes        |-> << >>,
     roles_assigned       |-> << >>,
     merlin_id            |-> NoId,
     assassin_id          |-> NoId]

(***************************************************************************)
(* Helpers for Python lists and dicts                                      *)
(***************************************************************************)
\* [p.user_id for p in self.players]
user_ids(g) == {g.players[i].user_id : i \in DOMAIN g.players}

\* d[k] = v on a dict
DictSet(d, k, v) == (k :> v) @@ d

\* sum(1 for x in d.values() if x == v)
CountValues(d, v) == Cardinality({k \in DOMAIN d : d[k] = v})

\* sum(1 for m in self.missions if m == r)
CountMissions(g, r) == Cardinality({i \in 1..5 : g.missions[i] = r})

\* next(p for p in self.players if p.user_id == user_id)
player_of(g, user_id) ==
    g.players[CHOOSE i \in DOMAIN g.players : g.players[i].user_id = user_id]

Fail(g) == [ok |-> FALSE, g |-> g]

Ok(g) == [ok |-> TRUE, g |-> g]

(***************************************************************************)
(* src/avalon/game.py: roster and role assignment                          *)
(***************************************************************************)
add_player(g, user_id) ==
    IF Len(g.players) >= MAX_PLAYERS THEN Fail(g)
    ELSE IF user_id \in user_ids(g) THEN Fail(g)
    ELSE Ok([g EXCEPT !.players = Append(@, Player(user_id))])

\* remove_player without the check of the phase
remove_player_in_any_phase(g, user_id) ==
    Ok([g EXCEPT !.players = SelectSeq(@, LAMBDA p : p.user_id # user_id)])

remove_player(g, user_id) ==
    IF g.state # "lobby" THEN Fail(g)
    ELSE Ok([g EXCEPT !.players =
                 SelectSeq(@, LAMBDA p : p.user_id # user_id)])

can_start_game(g) ==
    MIN_PLAYERS <= Len(g.players) /\ Len(g.players) <= MAX_PLAYERS

\* roles_to_assign with Mordred added from 7 players on
roles_to_assign_mordred_at_seven(player_count) ==
    LET core == <<"MERLIN", "ASSASSIN">>
        r7   == IF player_count >= 7
                THEN core \o <<"PERCIVAL", "MORGANA", "MORDRED">> ELSE core
        remaining_good ==
            PLAYER_COUNTS[player_count].good
              - Cardinality({i \in DOMAIN r7 : ROLES[r7[i]].team = "good"})
        remaining_evil ==
            PLAYER_COUNTS[player_count].evil
              - Cardinality({i \in DOMAIN r7 : ROLES[r7[i]].team = "evil"})
    IN  r7 \o [i \in 1..remaining_good |-> "SERVANT"]
           \o [i \in 1..remaining_evil |-> "MINION"]

\* the list roles_to_assign built by assign_roles for player_count players
roles_to_assign(player_count) ==
    LET core == <<"MERLIN", "ASSASSIN">>
        r7   == IF player_count >= 7
                THEN core \o <<"PERCIVAL", "MORGANA">> ELSE core
        r8   == IF player_count >= 8 THEN r7 \o <<"MORDRED">> ELSE r7
        remaining_good ==
            PLAYER_COUNTS[player_count].good
              - Cardinality({i \in DOMAIN r8 : ROLES[r8[i]].team = "good"})
        remaining_evil ==
            PLAYER_COUNTS[player_count].evil
              - Cardinality({i \in DOMAIN r8 : ROLES[r8[i]].team = "evil"})
    IN  r8 \o [i \in 1..remaining_good |-> "SERVANT"]
           \o [i \in 1..remaining_evil |-> "MINION"]

\* `shuffled` is the outcome of random.shuffle: shuffled[i] is the seat (index
\* into players) of the player that receives roles_to_assign[i].  A call that
\* raises ValueError is reported as ok = FALSE.
\* assign_roles that caches the ids of the first two seats of the roster, as
\* if the players had not been shuffled
assign_roles_ids_of_first_seats(g, shuffled) ==
    IF ~can_start_game(g) THEN Fail(g)
    ELSE
      LET n     == Len(g.players)
          roles == roles_to_assign(n)
          slot(seat) == CHOOSE i \in 1..n : shuffled[i] = seat
          newPlayers ==
              [seat \in 1..n |->
                  [user_id |-> g.players[seat].user_id,
                   role    |-> roles[slot(seat)],
                   team    |-> ROLES[roles[slot(seat)]].team]]
      IN  Ok([g EXCEPT
                !.players        = newPlayers,
                !.roles_assigned =
                    [uid \in {newPlayers[s].user_id : s \in 1..n} |->
                        newPlayers[CHOOSE s \in 1..n :
                                     newPlayers[s].user_id = uid].role] @@ @,
                !.merlin_id      = g.players[1].user_id,
                !.assassin_id    = g.players[2].user_id,
                !.state          = "team_proposal"])

assign_roles(g, shuffled) ==
    IF ~can_start_game(g) THEN Fail(g)
    ELSE
      LET n     == Len(g.players)
          roles == roles_to_assign(n)
          slot(seat) == CHOOSE i \in 1..n : shuffled[i] = seat
          newPlayers ==
              [seat \in 1..n |->
                  [user_id |-> g.players[seat].user_id,
                   role    |-> roles[slot(seat)],
                   team    |-> ROLES[roles[slot(seat)]].team]]
          holder(role) ==
              newPlayers[CHOOSE seat \in 1..n : newPlayers[seat].role = role].user_id
      IN  Ok([g EXCEPT
                !.players        = newPlayers,
                !.roles_assigned =
                    [uid \in {newPlayers[s].user_id : s \in 1..n} |->
                        newPlayers[CHOOSE s \in 1..n :
                                     newPlayers[s].user_id = uid].role] @@ @,
                !.merlin_id      = holder("MERLIN"),
                !.assassin_id    = holder("ASSASSIN"),
                !.state          = "team_proposal"])

get_current_leader(g) == g.players[g.current_leader_index + 1]

get_mission_size(g) == MISSION_SIZES[Len(g.players)][g.current_round]

(***************************************************************************)
(* src/avalon/game.py: team proposal and team vote                         *)
(***************************************************************************)
\* propose_team without the check that the caller is the current leader
propose_team_by_anyone(g, leader_id, team_user_ids) ==
    IF g.state # "team_proposal" THEN Fail(g)
    ELSE IF Len(team_user_ids) # get_mission_size(g) THEN Fail(g)
    ELSE IF ~(\A i \in DOMAIN team_user_ids : team_user_ids[i] \in user_ids(g))
         THEN Fail(g)
    ELSE Ok([g EXCEPT !.proposed_team = team_user_ids,
                      !.team_votes    = << >>,
                      !.state         = "team_voting"])

propose_team(g, leader_id, team_user_ids) ==
    IF g.state # "team_proposal" THEN Fail(g)
    ELSE IF get_current_leader(g).user_id # leader_id THEN Fail(g)
    ELSE IF Len(team_user_ids) # get_mission_size(g) THEN Fail(g)
    ELSE IF ~(\A i \in DOMAIN team_user_ids : team_user_ids[i] \in user_ids(g))
         THEN Fail(g)
    ELSE Ok([g EXCEPT !.proposed_team = team_user_ids,
                      !.team_votes    = << >>,
                      !.state         = "team_voting"])

\* _process_team_vote that moves the leader on an approval too
_process_team_vote_approval_moves_leader(g) ==
    LET approvals == CountValues(g.team_votes, TRUE)
        majority  == (Len(g.players) \div 2) + 1
    IN  IF approvals >= majority
        THEN [g EXCEPT !.vote_track    = 0,
                       !.mission_votes = << >>,
                       !.current_leader_index = (@ + 1) % Len(g.players),
                       !.state         = "mission"]
        ELSE
          LET g1 == [g EXCEPT !.vote_track    = @ + 1,
                              !.proposed_team = << >>]
          IN  IF g1.vote_track >= 5
              THEN [g1 EXCEPT !.state = "finished"]
              ELSE [g1 EXCEPT
                      !.current_leader_index = (@ + 1) % Len(g.players),
                      !.state = "team_proposal"]

\* _process_team_vote with half of the votes as the majority (a tie approves)
_process_team_vote_tie_approves(g) ==
    LET approvals == CountValues(g.team_votes, TRUE)
        majority  == (Len(g.players) + 1) \div 2
    IN  IF approvals >= majority
        THEN [g EXCEPT !.vote_track    = 0,
                       !.mission_votes = << >>,
                       !.state         = "mission"]
        ELSE
          LET g1 == [g EXCEPT !.vote_track    = @ + 1,
                              !.proposed_team = << >>]
          IN  IF g1.vote_track >= 5
              THEN [g1 EXCEPT !.state = "finished"]
              ELSE [g1 EXCEPT
                      !.current_leader_index = (@ + 1) % Len(g.players),
                      !.state = "team_proposal"]

\* _process_team_vote that keeps the leader after a rejection
_process_team_vote_same_leader(g) ==
    LET approvals == CountValues(g.team_votes, TRUE)
        majority  == (Len(g.players) \div 2) + 1
    IN  IF approvals >= majority
        THEN [g EXCEPT !.vote_track    = 0,
                       !.mission_votes = << >>,
                       !.state         = "mission"]
        ELSE
          LET g1 == [g EXCEPT !.vote_track    = @ + 1,
                              !.proposed_team = << >>]
          IN  IF g1.vote_track >= 5
              THEN [g1 EXCEPT !.state = "finished"]
              ELSE [g1 EXCEPT !.state = "team_proposal"]

_process_team_vote(g) ==
    LET approvals == CountValues(g.team_votes, TRUE)
        majority  == (Len(g.players) \div 2) + 1
    IN  IF approvals >= majority
        THEN [g EXCEPT !.vote_track    = 0,
                       !.mission_votes = << >>,
                       !.state         = "mission"]
        ELSE
          LET g1 == [g EXCEPT !.vote_track    = @ + 1,
                              !.proposed_team = << >>]
          IN  IF g1.vote_track >= 5
              THEN [g1 EXCEPT !.state = "finished"]
              ELSE [g1 EXCEPT
                      !.current_leader_index = (@ + 1) % Len(g.players),
                      !.state = "team_proposal"]

\* vote_team that tallies as soon as a majority of the players has voted
vote_team_tallies_on_majority(g, user_id, approve) ==
    IF g.state # "team_voting" THEN Fail(g)
    ELSE IF user_id \notin user_ids(g) THEN Fail(g)
    ELSE
      LET g1 == [g EXCEPT !.team_votes = DictSet(@, user_id, approve)]
      IN  IF Cardinality(DOMAIN g1.team_votes) = (Len(g1.players) \div 2) + 1
          THEN Ok(_process_team_vote(g1))
          ELSE Ok(g1)

\* vote_team that keeps the first ballot of a player who votes again
vote_team_keeps_first(g, user_id, approve) ==
    IF g.state # "team_voting" THEN Fail(g)
    ELSE IF user_id \notin user_ids(g) THEN Fail(g)
    ELSE
      LET g1 == [g EXCEPT !.team_votes = @ @@ (user_id :> approve)]
      IN  IF Cardinality(DOMAIN g1.team_votes) = Len(g1.players)
          THEN Ok(_process_team_vote(g1))
          ELSE Ok(g1)

vote_team(g, user_id, approve) ==
    IF g.state # "team_voting" THEN Fail(g)
    ELSE IF user_id \notin user_ids(g) THEN Fail(g)
    ELSE
      LET g1 == [g EXCEPT !.team_votes = DictSet(@, user_id, approve)]
      IN  IF Cardinality(DOMAIN g1.team_votes) = Len(g1.players)
          THEN Ok(_process_team_vote(g1))
          ELSE Ok(g1)

(***************************************************************************)
(* src/avalon/game.py: mission vote                                        *)
(***************************************************************************)
\* the two-fail test with the round taken as a 0-indexed mission number
requires_two_fails_one_based(g) ==
    /\ Len(g.players) \in DOMAIN TWO_FAIL_MISSIONS
    /\ g.current_round \in TWO_FAIL_MISSIONS[Len(g.players)]

\* whether the mission of the round needs two Fail ballots to fail
requires_two_fails(g) ==
    /\ Len(g.players) \in DOMAIN TWO_FAIL_MISSIONS
    /\ (g.current_round - 1) \in TWO_FAIL_MISSIONS[Len(g.players)]

\* _process_mission_vote that asks for more than three missions to win
_process_mission_vote_more_than_three(g) ==
    LET fails          == CountValues(g.mission_votes, FALSE)
        mission_failed == fails >= (IF requires_two_fails(g) THEN 2 ELSE 1)
        g1 == [g EXCEPT !.missions[g.current_round] =
                   IF mission_failed THEN "fail" ELSE "success"]
        good_wins == CountMissions(g1, "success") > 3
        evil_wins == CountMissions(g1, "fail") > 3
    IN  IF good_wins THEN [g1 EXCEPT !.state = "assassination"]
        ELSE IF evil_wins THEN [g1 EXCEPT !.state = "finished"]
        ELSE [g1 EXCEPT !.current_round = @ + 1,
                        !.current_leader_index = (@ + 1) % Len(g.players),
                        !.proposed_team = << >>,
                        !.state = "team_proposal"]

\* _process_mission_vote that keeps the leader for the next round
_process_mission_vote_same_leader(g) ==
    LET fails          == CountValues(g.mission_votes, FALSE)
        mission_failed == fails >= (IF requires_two_fails(g) THEN 2 ELSE 1)
        g1 == [g EXCEPT !.missions[g.current_round] =
                   IF mission_failed THEN "fail" ELSE "success"]
        good_wins == CountMissions(g1, "success") >= 3
        evil_wins == CountMissions(g1, "fail") >= 3
    IN  IF good_wins THEN [g1 EXCEPT !.state = "assassination"]
        ELSE IF evil_wins THEN [g1 EXCEPT !.state = "finished"]
        ELSE [g1 EXCEPT !.current_round = @ + 1,
                        !.proposed_team = << >>,
                        !.state = "team_proposal"]

\* _process_mission_vote that ends the match at the third succeeded mission
_process_mission_vote_no_assassination(g) ==
    LET fails          == CountValues(g.mission_votes, FALSE)
        mission_failed == fails >= (IF requires_two_fails(g) THEN 2 ELSE 1)
        g1 == [g EXCEPT !.missions[g.current_round] =
                   IF mission_failed THEN "fail" ELSE "success"]
        good_wins == CountMissions(g1, "success") >= 3
        evil_wins == CountMissions(g1, "fail") >= 3
    IN  IF good_wins \/ evil_wins THEN [g1 EXCEPT !.state = "finished"]
        ELSE [g1 EXCEPT !.current_round = @ + 1,
                        !.current_leader_index = (@ + 1) % Len(g.players),
                        !.proposed_team = << >>,
                        !.state = "team_proposal"]

_process_mission_vote(g) ==
    LET fails          == CountValues(g.mission_votes, FALSE)
        mission_failed == fails >= (IF requires_two_fails(g) THEN 2 ELSE 1)
        g1 == [g EXCEPT !.missions[g.current_round] =
                   IF mission_failed THEN "fail" ELSE "success"]
        good_wins == CountMissions(g1, "success") >= 3
        evil_wins == CountMissions(g1, "fail") >= 3
    IN  IF good_wins THEN [g1 EXCEPT !.state = "assassination"]
        ELSE IF evil_wins THEN [g1 EXCEPT !.state = "finished"]
        ELSE [g1 EXCEPT !.current_round = @ + 1,
                        !.current_leader_index = (@ + 1) % Len(g.players),
                        !.proposed_team = << >>,
                        !.state = "team_proposal"]

\* vote_mission that records the ballot before it refuses a good player's Fail
vote_mission_records_refused(g, user_id, success) ==
    IF g.state # "mission" THEN Fail(g)
    ELSE IF ~(\E i \in DOMAIN g.proposed_team : g.proposed_team[i] = user_id)
         THEN Fail(g)
    ELSE
      LET g1 == [g EXCEPT !.mission_votes = DictSet(@, user_id, success)]
      IN  IF ~success /\ is_good(player_of(g, user_id)) THEN Fail(g1)
          ELSE IF Cardinality(DOMAIN g1.mission_votes) = Len(g1.proposed_team)
          THEN Ok(_process_mission_vote(g1))
          ELSE Ok(g1)

\* vote_mission without the check that a good player cannot cast Fail
vote_mission_any_ballot(g, user_id, success) ==
    IF g.state # "mission" THEN Fail(g)
    ELSE IF ~(\E i \in DOMAIN g.proposed_team : g.proposed_team[i] = user_id)
         THEN Fail(g)
    ELSE
      LET g1 == [g EXCEPT !.mission_votes = DictSet(@, user_id, success)]
      IN  IF Cardinality(DOMAIN g1.mission_votes) = Len(g1.proposed_team)
          THEN Ok(_process_mission_vote(g1))
          ELSE Ok(g1)

vote_mission(g, user_id, success) ==
    IF g.state # "mission" THEN Fail(g)
    ELSE IF ~(\E i \in DOMAIN g.proposed_team : g.proposed_team[i] = user_id)
         THEN Fail(g)
    ELSE IF ~success /\ is_good(player_of(g, user_id)) THEN Fail(g)
    ELSE
      LET g1 == [g EXCEPT !.mission_votes = DictSet(@, user_id, success)]
      IN  IF Cardinality(DOMAIN g1.mission_votes) = Len(g1.proposed_team)
          THEN Ok(_process_mission_vote(g1))
          ELSE Ok(g1)

(***************************************************************************)
(* src/avalon/game.py: assassination and winner                            *)
(***************************************************************************)
\* assassinate that accepts the target and leaves the phase as it is
assassinate_keeps_phase(g, assassin_id, target_id) ==
    IF g.state # "assassination" THEN Fail(g)
    ELSE IF assassin_id # g.assassin_id THEN Fail(g)
    ELSE IF target_id \notin user_ids(g) THEN Fail(g)
    ELSE Ok(g)

assassinate(g, assassin_id, target_id) ==
    IF g.state # "assassination" THEN Fail(g)
    ELSE IF assassin_id # g.assassin_id THEN Fail(g)
    ELSE IF target_id \notin user_ids(g) THEN Fail(g)
    ELSE Ok([g EXCEPT !.state = "finished"])

\* get_game_winner without the branch of the five rejections
get_game_winner_without_rejections(g) ==
    IF g.state # "finished" THEN None
    ELSE IF CountMissions(g, "fail") >= 3 THEN "evil"
    ELSE IF CountMissions(g, "success") >= 3 THEN "good"
    ELSE None

get_game_winner(g) ==
    IF g.state # "finished" THEN None
    ELSE IF CountMissions(g, "fail") >= 3 THEN "evil"
    ELSE IF g.vote_track >= 5 THEN "evil"
    ELSE IF CountMissions(g, "success") >= 3 THEN "good"
    ELSE None

is_assassination_successful(g, target_id) == target_id = g.merlin_id

(***************************************************************************)
(* src/avalon/game.py: what a player is told about the others              *)
(***************************************************************************)
\* list[::-1]
Reverse(list) == [i \in 1..Len(list) |-> list[Len(list) + 1 - i]]

\* p.username for each player of the list
Usernames(list) == [i \in DOMAIN list |-> username(list[i].user_id)]

\* f"{p.username} ({ROLES[p.role]['name']})" for each player of the list:
\* the entry is the pair of the username and the role name
UsernamesWithRoles(list) ==
    [i \in DOMAIN list |->
        <<username(list[i].user_id), ROLES[list[i].role].name>>]

\* the list known_evil, with Mordred in it
known_evil_with_mordred(g) ==
    Usernames(SelectSeq(g.players, is_evil))

\* the list known_evil built for Merlin
known_evil(g) ==
    Usernames(SelectSeq(g.players,
                        LAMBDA p : is_evil(p) /\ p.role # "MORDRED"))

\* the list merlin_morgana, with Merlin only
merlin_morgana_merlin_only(g, reversed) ==
    LET listed == Usernames(SelectSeq(g.players, LAMBDA p : p.role = "MERLIN"))
    IN  IF reversed THEN Reverse(listed) ELSE listed

\* the list merlin_morgana built for Percival; `reversed` is the outcome of
\* random.shuffle on the list of (at most) two names
merlin_morgana(g, reversed) ==
    LET listed == Usernames(SelectSeq(g.players,
                      LAMBDA p : p.role \in {"MERLIN", "MORGANA"}))
    IN  IF reversed THEN Reverse(listed) ELSE listed

\* the list evil_teammates, without Mordred
evil_teammates_without_mordred(g, user_id) ==
    UsernamesWithRoles(SelectSeq(g.players,
        LAMBDA p : is_evil(p) /\ p.role # "MORDRED" /\ p.user_id # user_id))

\* the list evil_teammates built for an evil player
evil_teammates(g, user_id) ==
    UsernamesWithRoles(SelectSeq(g.players,
        LAMBDA p : is_evil(p) /\ p.user_id # user_id))

\* the dict returned, without its "description"
\* get_role_info_for_player that tells every good player but Percival what
\* Merlin is told
get_role_info_for_player_good_know_evil(g, user_id, reversed) ==
    IF user_id \notin user_ids(g) \/ player_of(g, user_id).role = None
    THEN << >>
    ELSE
      LET player == player_of(g, user_id)
          info   == [role |-> player.role, team |-> player.team]
      IN  IF player.role = "PERCIVAL"
          THEN info @@ [merlin_morgana |-> merlin_morgana(g, reversed)]
          ELSE IF is_good(player)
          THEN info @@ [known_evil |-> known_evil(g)]
          ELSE info @@ [evil_teammates |-> evil_teammates(g, user_id)]

get_role_info_for_player(g, user_id, reversed) ==
    IF user_id \notin user_ids(g) \/ player_of(g, user_id).role = None
    THEN << >>
    ELSE
      LET player == player_of(g, user_id)
          info   == [role |-> player.role, team |-> player.team]
      IN  IF player.role = "MERLIN"
          THEN info @@ [known_evil |-> known_evil(g)]
          ELSE IF player.role = "PERCIVAL"
          THEN info @@ [merlin_morgana |-> merlin_morgana(g, reversed)]
          ELSE IF is_evil(player)
          THEN info @@ [evil_teammates |-> evil_teammates(g, user_id)]
          ELSE info

(***************************************************************************)
(* The callers of the engine: the inputs each operation is tried with.     *)
(***************************************************************************)
\* [p.user_id for p in self.players], as a list
seating(g) == [i \in DOMAIN g.players |-> g.players[i].user_id]

\* an id that is not seated: players join with consecutive ids 1, 2, ...
Stranger(g) == Len(g.players) + 1

\* who asks to join: the next new id, and the id seated last once more
JoinIds(g) == {uid \in 1 .. Stranger(g) : uid >= Len(g.players)} \ {0}

\* who asks to leave: the player seated last, and someone not seated
LeaveIds(g) == {uid \in 1 .. Stranger(g) : uid >= Len(g.players)} \ {0}

\* outcomes of random.shuffle(shuffled_players): rotations of the seating
Rotation(n, k) == [i \in 1..n |-> ((i - 1 + k) % n) + 1]

Shuffles(g) == {Rotation(Len(g.players), k) : k \in 0 .. MaxShuffle - 1}

\* the seats o+1 .. o+len of the roster (cyclically), as a list of user ids
Window(g, o, len) ==
    [i \in 1..len |-> g.players[((o + i - 1) % Len(g.players)) + 1].user_id]

\* who tries to propose: the leader and one player who is not the leader
LeaderInputs(g) ==
    IF g.players = << >> THEN {Stranger(g)}
    ELSE {get_current_leader(g).user_id,
          g.players[((g.current_leader_index + 1) % Len(g.players)) + 1].user_id}

\* teams a leader is tried with: the right size from the leader's seat on,
\* one member too many, one member named twice, and one id that is not seated
TeamInputs(g) ==
    IF g.state # "team_proposal" THEN {<<Stranger(g)>>}
    ELSE LET n == get_mission_size(g) IN
         { Window(g, g.current_leader_index, n),
           Window(g, g.current_leader_index, n + 1),
           [i \in 1..n |-> get_current_leader(g).user_id],
           [i \in 1..n |-> IF i = 1 THEN Stranger(g)
                           ELSE get_current_leader(g).user_id] }

\* the first entry of the list that has no ballot yet (NoId if there is none)
FirstWithout(ids, ballots) ==
    IF \E i \in DOMAIN ids : ids[i] \notin DOMAIN ballots
    THEN ids[CHOOSE i \in DOMAIN ids :
                /\ ids[i] \notin DOMAIN ballots
                /\ \A j \in 1..(i - 1) : ids[j] \in DOMAIN ballots]
    ELSE NoId

\* the last entry of the list that has a ballot (NoId if there is none)
LastWith(ids, ballots) ==
    IF \E i \in DOMAIN ids : ids[i] \in DOMAIN ballots
    THEN ids[CHOOSE i \in DOMAIN ids :
                /\ ids[i] \in DOMAIN ballots
                /\ \A j \in (i + 1)..Len(ids) : ids[j] \notin DOMAIN ballots]
    ELSE NoId

\* the ballots held are those of the first seats, approvals before rejections
InSeatOrder(ids, ballots) ==
    \A i \in DOMAIN ids :
        ids[i] \in DOMAIN ballots =>
            \A j \in 1..(i - 1) :
                /\ ids[j] \in DOMAIN ballots
                /\ ballots[ids[i]] => ballots[ids[j]]

\* a close vote: the approvals are one short of the majority or just reach it
CloseVote(ids, ballots) ==
    LET majority == (Len(ids) \div 2) + 1
    IN  /\ CountValues(ballots, TRUE) <= majority
        /\ (\E u \in DOMAIN ballots : ~ballots[u]) =>
              CountValues(ballots, TRUE) >= majority - 1

\* who casts a team ballot: the next seat without one, the seat that voted
\* last (again), and someone not seated
TeamVoters(g) ==
    {FirstWithout(seating(g), g.team_votes),
     LastWith(seating(g), g.team_votes), Stranger(g)} \ {NoId}

\* who casts a mission ballot: the next member without one, the member that
\* voted last (again), and someone who is not on the team
MissionVoters(g) ==
    {FirstWithout(g.proposed_team, g.mission_votes),
     LastWith(g.proposed_team, g.mission_votes), Stranger(g)} \ {NoId}

\* who names a target, and whom: the assassin, Merlin and someone not seated
AssassinInputs(g) == {g.assassin_id, g.merlin_id}

TargetInputs(g) == {g.assassin_id, g.merlin_id, Stranger(g)}

(***************************************************************************)
(* The state machine: the whole life of one match                          *)
(***************************************************************************)
Init ==
    game = NewGame /\ late_calls = 0 /\ active_games = {} /\ pending = {}

\* a call that changes the match after it has left the lobby, made by an
\* operation that belongs to the lobby, uses up one of the late calls
CountLateCall ==
    /\ late_calls' = late_calls +
           (IF game.state # "lobby" /\ game' # game THEN 1 ELSE 0)
    /\ late_calls' <= MaxLateCalls
    /\ UNCHANGED <<active_games, pending>>

AddPlayer ==
    \E uid \in JoinIds(game) :
        /\ game' = add_player(game, uid).g
        /\ Len(game'.players) <= MaxId
        /\ CountLateCall

RemovePlayer ==
    \E uid \in LeaveIds(game) :
        /\ game' = remove_player(game, uid).g
        /\ UNCHANGED <<late_calls, active_games, pending>>

AssignRoles ==
    \E shuffled \in Shuffles(game) :
        /\ game' = assign_roles(game, shuffled).g
        /\ CountLateCall

ProposeTeam ==
    \E leader_id \in LeaderInputs(game), team_user_ids \in TeamInputs(game) :
        /\ game' = propose_team(game, leader_id, team_user_ids).g
        /\ UNCHANGED <<late_calls, active_games, pending>>

VoteTeam ==
    \E user_id \in TeamVoters(game), approve \in BOOLEAN :
        /\ game' = vote_team(game, user_id, approve).g
        /\ InSeatOrder(seating(game'), game'.team_votes)
        /\ CloseVote(seating(game'), game'.team_votes)
        /\ game'.vote_track > game.vote_track =>
               game.current_round <= MaxRejectRound
        /\ UNCHANGED <<late_calls, active_games, pending>>

VoteMission ==
    \E user_id \in MissionVoters(game), success \in BOOLEAN :
        /\ game' = vote_mission(game, user_id, success).g
        /\ UNCHANGED <<late_calls, active_games, pending>>

Assassinate ==
    \E assassin_id \in AssassinInputs(game), target_id \in TargetInputs(game) :
        /\ game' = assassinate(game, assassin_id, target_id).g
        /\ UNCHANGED <<late_calls, active_games, pending>>

Next ==
    \/ AddPlayer
    \/ RemovePlayer
    \/ AssignRoles
    \/ ProposeTeam
    \/ VoteTeam
    \/ VoteMission
    \/ Assassinate

Spec == Init /\ [][Next]_vars

(***************************************************************************)
(* One round of a match that is under way.  The matches are brought to the *)
(* round by the engine's own operations: n players join, roles are         *)
(* assigned, f missions are sabotaged and s succeed, r proposals are       *)
(* voted down (none, or as many as make the round's own rejection the      *)
(* fourth or the fifth in a row), and the leader proposes a team.          *)
(***************************************************************************)
RECURSIVE Seated(_)
Seated(n) == IF n = 0 THEN NewGame ELSE add_player(Seated(n - 1), n).g

Started(n, k) == assign_roles(Seated(n), Rotation(n, k)).g

\* the seats i, i+1, ... cast the same team ballot
RECURSIVE CastTeam(_, _, _)
CastTeam(g, i, approve) ==
    IF i > Len(g.players) THEN g
    ELSE CastTeam(vote_team(g, g.players[i].user_id, approve).g, i + 1, approve)

\* the members team[i], team[i+1], ... cast their mission ballots: the evil
\* members sabotage if asked to
RECURSIVE CastMission(_, _, _, _)
CastMission(g, team, i, sabotage) ==
    IF i > Len(team) THEN g
    ELSE CastMission(
           vote_mission(g, team[i],
                        ~(sabotage /\ is_evil(player_of(g, team[i])))).g,
           team, i + 1, sabotage)

EvilIn(g, team) ==
    Cardinality({i \in DOMAIN team : is_evil(player_of(g, team[i]))})

\* a team of the size of the round; one with enough evil members to make the
\* mission fail if it is to be sabotaged
TeamFor(g, sabotage) ==
    LET n    == get_mission_size(g)
        need == IF ~sabotage THEN 0 ELSE IF requires_two_fails(g) THEN 2 ELSE 1
    IN  Window(g, CHOOSE o \in 0 .. Len(g.players) - 1 :
                      EvilIn(g, Window(g, o, n)) >= need, n)

PlayMission(g, sabotage) ==
    LET team == TeamFor(g, sabotage)
        g1   == propose_team(g, get_current_leader(g).user_id, team).g
    IN  CastMission(CastTeam(g1, 1, TRUE), team, 1, sabotage)

RejectTeam(g) ==
    CastTeam(propose_team(g, get_current_leader(g).user_id,
                          TeamFor(g, FALSE)).g, 1, FALSE)

RECURSIVE AfterMissions(_, _, _)
AfterMissions(g, f, s) ==
    IF f > 0 THEN AfterMissions(PlayMission(g, TRUE), f - 1, s)
    ELSE IF s > 0 THEN AfterMissions(PlayMission(g, FALSE), f, s - 1)
    ELSE g

RECURSIVE AfterRejections(_, _)
AfterRejections(g, r) ==
    IF r = 0 THEN g ELSE AfterRejections(RejectTeam(g), r - 1)

RoundStarts ==
    { LET g == AfterRejections(AfterMissions(Started(n, k), f, s), r)
      IN  propose_team(g, get_current_leader(g).user_id,
                       Window(g, 0, get_mission_size(g))).g :
        n \in MIN_PLAYERS .. MaxSeats, k \in 0 .. MaxShuffle - 1,
        f \in 0 .. 2, s \in 0 .. 2, r \in {0, 3, 4} }

InitRound ==
    game \in RoundStarts /\ late_calls = 0 /\ active_games = {} /\ pending = {}

\* someone joins while the round is played
LateJoin ==
    /\ game' = add_player(game, Stranger(game)).g
    /\ CountLateCall

\* a team ballot of the round: in seating order, approvals first
CastTeamBallot ==
    \E user_id \in TeamVoters(game), approve \in BOOLEAN :
        /\ game' = vote_team(game, user_id, approve).g
        /\ InSeatOrder(seating(game'), game'.team_votes)
        /\ UNCHANGED <<late_calls, active_games, pending>>

NextRound ==
    \/ LateJoin
    \/ CastTeamBallot
    \/ VoteMission
    \/ Assassinate

SpecRound == InitRound /\ [][NextRound]_vars

(***************************************************************************)
(* The start of a match of every size: up to MAX_PLAYERS players join, the *)
(* host starts the match from the lobby, and the first round is played on  *)
(* the team of the first seats with every player approving it.             *)
(***************************************************************************)
\* the list with the entries at a and b exchanged
Exchange(list, a, b) ==
    [i \in DOMAIN list |->
        IF i = a THEN list[b] ELSE IF i = b THEN list[a] ELSE list[i]]

\* outcomes of random.shuffle(shuffled_players): every rotation of the
\* seating, and every rotation with Merlin's seat exchanged for another
ShufflesOfStart(g) ==
    {Exchange(Rotation(Len(g.players), k), 1, j) :
        k \in 0 .. Len(g.players) - 1, j \in 1 .. Len(g.players)}

InitStart ==
    game = NewGame /\ late_calls = 0 /\ active_games = {} /\ pending = {}

\* the Join button: the next user joins (the one after MAX_PLAYERS is refused)
JoinLobby ==
    /\ game.state = "lobby"
    /\ game' = add_player(game, Stranger(game)).g
    /\ UNCHANGED <<late_calls, active_games, pending>>

\* the Start button of the lobby message
StartMatch ==
    /\ game.state = "lobby"
    /\ \E shuffled \in ShufflesOfStart(game) :
           game' = assign_roles(game, shuffled).g
    /\ UNCHANGED <<late_calls, active_games, pending>>

\* the first leader proposes the first seats
FirstProposal ==
    /\ game.state = "team_proposal"
    /\ game.current_round = 1
    /\ game' = propose_team(game, get_current_leader(game).user_id,
                            Window(game, 0, get_mission_size(game))).g
    /\ UNCHANGED <<late_calls, active_games, pending>>

\* the next seat approves the team
ApproveTeam ==
    /\ game.state = "team_voting"
    /\ game' = vote_team(game, FirstWithout(seating(game), game.team_votes),
                         TRUE).g
    /\ UNCHANGED <<late_calls, active_games, pending>>

NextStart ==
    \/ JoinLobby
    \/ StartMatch
    \/ FirstProposal
    \/ ApproveTeam
    \/ VoteMission

SpecStart == InitStart /\ [][NextStart]_vars

(***************************************************************************)
(* A match whose players all do what is expected of them: the leader       *)
(* proposes teams of distinct members, everyone votes, the assassin names  *)
(* a player.                                                               *)
(***************************************************************************)
InitLive ==
    /\ game \in {Started(n, k) : n \in MIN_PLAYERS .. MaxId,
                                 k \in 0 .. MaxShuffle - 1}
    /\ late_calls = 0
    /\ active_games = {}
    /\ pending = {}

\* the leader proposes a team of distinct members: one that cannot fail the
\* mission, or one that can
LeaderProposes ==
    /\ game.state = "team_proposal"
    /\ \E sabotage \in BOOLEAN :
           game' = propose_team(game, get_current_leader(game).user_id,
                                TeamFor(game, sabotage)).g
    /\ UNCHANGED <<late_calls, active_games, pending>>

\* the next seat without a team ballot votes
PlayerVotes ==
    /\ game.state = "team_voting"
    /\ \E approve \in BOOLEAN :
           game' = vote_team(game,
                             FirstWithout(seating(game), game.team_votes),
                             approve).g
    /\ InSeatOrder(seating(game'), game'.team_votes)
    /\ CloseVote(seating(game'), game'.team_votes)
    /\ UNCHANGED <<late_calls, active_games, pending>>

\* the next member without a mission ballot votes
MemberVotes ==
    /\ game.state = "mission"
    /\ \E success \in BOOLEAN :
           game' = vote_mission(game,
                                FirstWithout(game.proposed_team,
                                             game.mission_votes),
                                success).g
    /\ UNCHANGED <<late_calls, active_games, pending>>

\* the assassin names a player
AssassinNames ==
    /\ game.state = "assassination"
    /\ \E target_id \in user_ids(game) :
           game' = assassinate(game, game.assassin_id, target_id).g
    /\ UNCHANGED <<late_calls, active_games, pending>>

NextLive ==
    \/ LeaderProposes
    \/ PlayerVotes
    \/ MemberVotes
    \/ AssassinNames

SpecLive ==
    /\ InitLive
    /\ [][NextLive]_vars
    /\ WF_vars(LeaderProposes)
    /\ WF_vars(PlayerVotes)
    /\ WF_vars(MemberVotes)
    /\ WF_vars(AssassinNames)

(***************************************************************************)
(* src/avalon/bot.py and src/avalon/views.py: the handlers of one channel. *)
(* A handler runs up to its next await whose resumption still touches the  *)
(* match; other handlers run in between.                                   *)
(***************************************************************************)
\* interaction.channel_id of the channel the commands are given in
channel_id == "channel"

\* interaction.user.id of the user who gives /avalon_start
host_id == NoId + 1

InitBot ==
    game = NewGame /\ late_calls = 0 /\ active_games = {} /\ pending = {}

\* /avalon_start: refused while the channel has an entry; else a new match
\* with the host seated is registered (the handlers of an earlier match hold
\* the earlier object)
AvalonStart ==
    /\ channel_id \notin active_games
    /\ game' = add_player(NewGame, host_id).g
    /\ active_games' = active_games \cup {channel_id}
    /\ pending' = {}
    /\ UNCHANGED late_calls

\* the buttons of the lobby message stay in place after the start:
\* start_game stops in send_role_dms (player.is_ai) before it replaces the
\* view, so each of them can be pressed in any phase
\* the Join button
JoinGame ==
    /\ channel_id \in active_games
    /\ game' = add_player(game, Stranger(game)).g
    /\ Len(game'.players) <= MaxId
    /\ CountLateCall

\* the Cancel button, pressed by the host
CancelGame ==
    /\ channel_id \in active_games
    /\ active_games' = active_games \ {channel_id}
    /\ late_calls' = late_calls + (IF game.state # "lobby" THEN 1 ELSE 0)
    /\ late_calls' <= MaxLateCalls
    /\ UNCHANGED <<game, pending>>

\* the Start button, pressed by the host
StartGame ==
    /\ channel_id \in active_games
    /\ can_start_game(game)
    /\ \E shuffled \in Shuffles(game) :
           game' = assign_roles(game, shuffled).g
    /\ CountLateCall

\* /propose given by the leader
ProposeCommand ==
    /\ channel_id \in active_games
    /\ game.state = "team_proposal"
    /\ \E sabotage \in BOOLEAN :
           game' = propose_team(game, get_current_leader(game).user_id,
                                TeamFor(game, sabotage)).g
    /\ UNCHANGED <<late_calls, active_games, pending>>

\* the Approve and Reject buttons: the handler records the ballot and then
\* announces the result, which changes nothing in the match
TeamVoteButton ==
    /\ game.state = "team_voting"
    /\ \E approve \in BOOLEAN :
           game' = vote_team(game,
                             FirstWithout(seating(game), game.team_votes),
                             approve).g
    /\ InSeatOrder(seating(game'), game'.team_votes)
    /\ CloseVote(seating(game'), game'.team_votes)
    /\ game'.vote_track > game.vote_track =>
           game.current_round <= MaxRejectRound
    /\ UNCHANGED <<late_calls, active_games, pending>>

\* the Success and Fail buttons of a member, up to the await of the reply;
\* the Fail button is shown to evil members only
MissionVoteButton ==
    /\ game.state = "mission"
    /\ \E success \in BOOLEAN :
           LET user_id == FirstWithout(game.proposed_team, game.mission_votes)
               r       == vote_mission(game, user_id, success)
           IN  /\ success \/ is_evil(player_of(game, user_id))
               /\ r.ok
               /\ game' = r.g
               /\ pending' = pending \cup {user_id}
               /\ Cardinality(pending') <= MaxPending
    /\ UNCHANGED <<late_calls, active_games>>

\* the rest of the handler, after the reply: process_mission_vote_results,
\* which calls _process_mission_vote, if the ballots are as many as the team
MissionVoteResults ==
    /\ \E user_id \in pending :
           pending' = pending \ {user_id}
    /\ game' = IF Cardinality(DOMAIN game.mission_votes) =
                      Len(game.proposed_team)
               THEN _process_mission_vote(game)
               ELSE game
    /\ UNCHANGED <<late_calls, active_games>>

\* /assassinate given by the assassin
AssassinateCommand ==
    /\ channel_id \in active_games
    /\ game.state = "assassination"
    /\ \E target_id \in TargetInputs(game) :
           LET r == assassinate(game, game.assassin_id, target_id)
           IN  /\ r.ok
               /\ game' = [r.g EXCEPT !.state = "finished"]
    /\ active_games' = active_games \ {channel_id}
    /\ UNCHANGED <<late_calls, pending>>

NextBot ==
    \/ AvalonStart
    \/ JoinGame
    \/ CancelGame
    \/ StartGame
    \/ ProposeCommand
    \/ TeamVoteButton
    \/ MissionVoteButton
    \/ MissionVoteResults
    \/ AssassinateCommand

SpecBot == InitBot /\ [][NextBot]_vars

(***************************************************************************)
(* Properties.  A property of an operation is stated over the state the    *)
(* match is in and every argument the operation can be called with.        *)
(***************************************************************************)
\* the callers a property tries: everyone seated and someone who is not
Callers(g) == user_ids(g) \cup {Stranger(g)}

\* the teams a property tries: from the first seat and from the leader's, of
\* every length, and the teams the callers try
TeamsTried(g) ==
    IF Len(g.players) < MIN_PLAYERS THEN {<< >>, <<1>>, <<1, 2>>}
    ELSE TeamInputs(g) \cup
         {Window(g, o, len) : o \in {0, g.current_leader_index}, len \in 1..5}

\* the list holds the id
Holds(ids, user_id) == \E i \in DOMAIN ids : ids[i] = user_id

\* C1: a successful assassinate(assassin, target) ends the match with Evil
\* the winner if the target holds Merlin, and with Good the winner if not
\* (three missions have succeeded in both cases).
C1_TargetDecidesWinner ==
    \A assassin_id \in Callers(game), target_id \in Callers(game) :
        LET r == assassinate(game, assassin_id, target_id)
        IN  r.ok =>
              /\ CountMissions(r.g, "success") >= 3
              /\ get_game_winner(r.g) =
                     IF target_id = game.merlin_id THEN "evil" ELSE "good"

\* C2: in every phase a Fail ballot of a good player is refused and leaves
\* the match as it was; an evil member of the proposed team may cast either
\* ballot in the Mission phase, and the ballot is recorded.
C2_GoodCannotFail ==
    \A user_id \in user_ids(game) :
        /\ is_good(player_of(game, user_id)) =>
               vote_mission(game, user_id, FALSE) = Fail(game)
        /\ ( /\ game.state = "mission"
             /\ Holds(game.proposed_team, user_id)
             /\ is_evil(player_of(game, user_id)) ) =>
               \A success \in BOOLEAN :
                   LET r == vote_mission(game, user_id, success)
                   IN  r.ok /\ r.g.mission_votes[user_id] = success

\* C2 witness: an evil member's Fail ballot is on record while a good member
\* of the same team, who has not voted yet, is refused Fail and allowed Success
C2_Witness ==
    /\ game.state = "mission"
    /\ \E e \in DOMAIN game.mission_votes :
           is_evil(player_of(game, e)) /\ ~game.mission_votes[e]
    /\ \E user_id \in user_ids(game) :
           /\ Holds(game.proposed_team, user_id)
           /\ user_id \notin DOMAIN game.mission_votes
           /\ is_good(player_of(game, user_id))
           /\ ~vote_mission(game, user_id, FALSE).ok
           /\ vote_mission(game, user_id, TRUE).ok

\* C3: a team ballot is tallied exactly when it makes the number of recorded
\* ballots equal to the number N of players; the proposal is approved iff
\* the approvals are at least floor(N/2)+1 (a tie rejects); on approval the
\* rejection streak is 0, the mission ballots are empty, the proposed team,
\* the leader and the round are kept, and the phase is Mission.
C3_MajorityApproves ==
    game.state = "team_voting" =>
        \A user_id \in user_ids(game), approve \in BOOLEAN :
            LET r  == vote_team(game, user_id, approve)
                tv == DictSet(game.team_votes, user_id, approve)
                N  == Len(game.players)
            IN  /\ r.ok
                /\ Cardinality(DOMAIN tv) # N =>
                       r.g = [game EXCEPT !.team_votes = tv]
                /\ Cardinality(DOMAIN tv) = N =>
                       /\ r.g.state = "mission" <=>
                              CountValues(tv, TRUE) >= (N \div 2) + 1
                       /\ r.g.state = "mission" =>
                              /\ r.g.vote_track = 0
                              /\ r.g.mission_votes = << >>
                              /\ r.g.proposed_team = game.proposed_team
                              /\ r.g.current_leader_index =
                                     game.current_leader_index
                              /\ r.g.current_round = game.current_round

\* C3 witness: seven players have voted 4 to 3 and the proposal is approved
C3_Witness ==
    /\ game.state = "mission"
    /\ Len(game.players) = 7
    /\ Cardinality(DOMAIN game.team_votes) = 7
    /\ CountValues(game.team_votes, TRUE) = 4
    /\ game.vote_track = 0
    /\ game.mission_votes = << >>
    /\ game.proposed_team # << >>

\* C4: when the tally rejects and the streak it yields is below 5, the
\* streak has grown by one, the proposed team is empty, the leader has moved
\* to the next seat (mod N), the round and the mission results are as they
\* were, and the phase is TeamProposal.
C4_RejectionMovesLeader ==
    game.state = "team_voting" =>
        \A user_id \in user_ids(game), approve \in BOOLEAN :
            LET r  == vote_team(game, user_id, approve)
                tv == DictSet(game.team_votes, user_id, approve)
                N  == Len(game.players)
            IN  ( /\ Cardinality(DOMAIN tv) = N
                  /\ CountValues(tv, TRUE) < (N \div 2) + 1
                  /\ game.vote_track + 1 < 5 ) =>
                    /\ r.g.vote_track = game.vote_track + 1
                    /\ r.g.proposed_team = << >>
                    /\ r.g.current_leader_index =
                           (game.current_leader_index + 1) % N
                    /\ r.g.current_round = game.current_round
                    /\ r.g.missions = game.missions
                    /\ r.g.state = "team_proposal"

\* C4 witness: the fourth rejection in a row has been tallied
C4_Witness ==
    /\ game.state = "team_proposal"
    /\ game.vote_track = 4
    /\ game.proposed_team = << >>
    /\ Cardinality(DOMAIN game.team_votes) = Len(game.players)
    /\ CountValues(game.team_votes, TRUE) < (Len(game.players) \div 2) + 1
    /\ game.current_leader_index = 4 % Len(game.players)

\* C5: whenever the rejection streak is 5 or more the phase is Finished and
\* the winner is Evil.
C5_FiveRejectionsEvilWins ==
    game.vote_track >= 5 =>
        game.state = "finished" /\ get_game_winner(game) = "evil"

\* C6: when the last mission ballot of the team is recorded, the mission
\* fails iff the Fail ballots are at least the required number, which is 2
\* when the match has 7..10 players and the round is 4, and 1 otherwise;
\* else it succeeds.  The outcome is written at the round's position.
C6_RequiredFails ==
    game.state = "mission" =>
        \A user_id \in user_ids(game), success \in BOOLEAN :
            LET r  == vote_mission(game, user_id, success)
                mv == DictSet(game.mission_votes, user_id, success)
                N  == Len(game.players)
                required ==
                    IF N \in 7..10 /\ game.current_round = 4 THEN 2 ELSE 1
            IN  (r.ok /\ Cardinality(DOMAIN mv) = Len(game.proposed_team)) =>
                    /\ r.g.missions[game.current_round] =
                           IF CountValues(mv, FALSE) >= required
                           THEN "fail" ELSE "success"
                    /\ \A i \in 1..5 : i # game.current_round =>
                           r.g.missions[i] = game.missions[i]

\* C6 witness: with seven or more players the fourth mission has succeeded
\* with exactly one Fail ballot
C6_Witness ==
    /\ Len(game.players) >= 7
    /\ game.current_round = 4
    /\ game.state = "assassination"
    /\ game.missions[4] = "success"
    /\ Cardinality(DOMAIN game.mission_votes) = Len(game.proposed_team)
    /\ CountValues(game.mission_votes, FALSE) = 1

\* C7: once the outcome of a mission is written: with 3 or more Failed
\* missions the phase is Finished; with 3 or more Succeeded missions the
\* phase is Assassination; otherwise the round has grown by one, the leader
\* has moved to the next seat (mod N), the proposed team is empty and the
\* phase is TeamProposal.
C7_AfterMission ==
    game.state = "mission" =>
        \A user_id \in user_ids(game), success \in BOOLEAN :
            LET r  == vote_mission(game, user_id, success)
                mv == DictSet(game.mission_votes, user_id, success)
                N  == Len(game.players)
            IN  (r.ok /\ Cardinality(DOMAIN mv) = Len(game.proposed_team)) =>
                  IF CountMissions(r.g, "fail") >= 3
                  THEN r.g.state = "finished"
                  ELSE IF CountMissions(r.g, "success") >= 3
                  THEN r.g.state = "assassination"
                  ELSE /\ r.g.current_round = game.current_round + 1
                       /\ r.g.current_leader_index =
                              (game.current_leader_index + 1) % N
                       /\ r.g.proposed_team = << >>
                       /\ r.g.state = "team_proposal"

\* C7 witness: the second mission has been played, no side has three
\* missions, and the third round waits for its proposal
C7_Witness ==
    /\ game.state = "team_proposal"
    /\ game.current_round = 3
    /\ game.missions[2] # "pending"
    /\ game.missions[3] = "pending"
    /\ game.proposed_team = << >>
    /\ game.mission_votes # << >>
    /\ game.vote_track = 0

\* C8: propose_team(leader, members) succeeds iff the phase is TeamProposal,
\* leader is the id seated at the leader's position, the number of members
\* is the mission size of the table for (N, round), and every member is
\* seated; on success the proposed team is members, the team ballots are
\* empty and the phase is TeamVoting.
C8_ProposalContract ==
    \A leader_id \in Callers(game), team_user_ids \in TeamsTried(game) :
        LET r == propose_team(game, leader_id, team_user_ids)
            N == Len(game.players)
        IN  /\ r.ok <=>
                  /\ game.state = "team_proposal"
                  /\ leader_id = seating(game)[game.current_leader_index + 1]
                  /\ Len(team_user_ids) = MISSION_SIZES[N][game.current_round]
                  /\ \A i \in DOMAIN team_user_ids :
                         team_user_ids[i] \in user_ids(game)
            /\ r.ok =>
                  /\ r.g.proposed_team = team_user_ids
                  /\ r.g.team_votes = << >>
                  /\ r.g.state = "team_voting"
            /\ ~r.ok => r.g = game

\* C8 witness: the leader of the second round has proposed a team of the
\* table's size and no ballot has been cast on it
C8_Witness ==
    /\ game.state = "team_voting"
    /\ game.current_round = 2
    /\ game.team_votes = << >>
    /\ Len(game.proposed_team) =
           MISSION_SIZES[Len(game.players)][game.current_round]
    /\ game.proposed_team[1] = get_current_leader(game).user_id

\* the match was ended by an assassination attempt
Assassinated(g) ==
    /\ g.state = "finished"
    /\ CountMissions(g, "success") >= 3
    /\ CountMissions(g, "fail") < 3
    /\ g.vote_track < 5

\* C9: assassinate(caller, target) succeeds iff the phase is Assassination,
\* caller holds the Assassin role and target is seated; every successful
\* call ends in Finished ...
C9_AssassinateContract ==
    \A assassin_id \in Callers(game), target_id \in Callers(game) :
        LET r == assassinate(game, assassin_id, target_id)
        IN  /\ r.ok <=>
                  /\ game.state = "assassination"
                  /\ assassin_id = game.assassin_id
                  /\ target_id \in user_ids(game)
            /\ r.ok => r.g.state = "finished"

\* ... so at most one attempt succeeds per match: a match ended by an
\* assassination attempt stays ended by it.
C9_OneAssassination ==
    []C9_AssassinateContract /\ [][Assassinated(game) => Assassinated(game')]_vars

\* C10: add_player(id) succeeds iff the phase is Lobby, the roster holds
\* fewer than 10 players and id is not seated; on success the player is
\* appended with no role and no team, otherwise the match is unchanged.
C10_JoinContract ==
    \A user_id \in Callers(game) :
        LET r == add_player(game, user_id)
        IN  /\ r.ok <=>
                  /\ game.state = "lobby"
                  /\ Len(game.players) < 10
                  /\ user_id \notin user_ids(game)
            /\ r.ok => r.g = [game EXCEPT !.players = Append(@, Player(user_id))]
            /\ ~r.ok => r.g = game

\* C11: assign_roles is refused, and changes nothing, if the roster size is
\* outside 5..10 or the phase is not Lobby; hence a second call never
\* assigns roles again or resets the phase.
C11_AssignOnlyInLobby ==
    \A shuffled \in Shuffles(game) :
        LET r == assign_roles(game, shuffled)
        IN  /\ r.ok <=>
                  /\ game.state = "lobby"
                  /\ Len(game.players) \in 5..10
            /\ ~r.ok => r.g = game

\* the number of players that hold the role
Holders(g, role) ==
    Cardinality({i \in DOMAIN g.players : g.players[i].role = role})

\* C12: for every N in 5..10, after assign_roles every player holds exactly
\* one role, with the team of that role; the good and evil counts are those
\* of the table for N; there is one Merlin and one Assassin; Percival and
\* Morgana are present (once each) iff N >= 7, Mordred (once) iff N >= 8;
\* the other good players are Servants and the other evil players Minions.
C12_RolesOfTheTable ==
    \A shuffled \in ShufflesOfStart(game) :
        LET r == assign_roles(game, shuffled)
            N == Len(game.players)
            special(from) == IF N >= from THEN 1 ELSE 0
        IN  r.ok =>
              /\ Len(r.g.players) = N
              /\ \A i \in 1..N :
                    /\ r.g.players[i].user_id = game.players[i].user_id
                    /\ r.g.players[i].role \in DOMAIN ROLES
                    /\ r.g.players[i].team = ROLES[r.g.players[i].role].team
                    /\ r.g.roles_assigned[r.g.players[i].user_id] =
                           r.g.players[i].role
              /\ Cardinality({i \in 1..N : is_good(r.g.players[i])}) =
                     PLAYER_COUNTS[N].good
              /\ Cardinality({i \in 1..N : is_evil(r.g.players[i])}) =
                     PLAYER_COUNTS[N].evil
              /\ Holders(r.g, "MERLIN") = 1
              /\ Holders(r.g, "ASSASSIN") = 1
              /\ Holders(r.g, "PERCIVAL") = special(7)
              /\ Holders(r.g, "MORGANA") = special(7)
              /\ Holders(r.g, "MORDRED") = special(8)
              /\ Holders(r.g, "SERVANT") =
                     PLAYER_COUNTS[N].good - 1 - special(7)
              /\ Holders(r.g, "MINION") =
                     PLAYER_COUNTS[N].evil - 1 - special(7) - special(8)

\* C12 witness: ten players have their roles, Mordred and one Minion
\* among them
C12_Witness ==
    /\ game.state = "team_proposal"
    /\ Len(game.players) = 10
    /\ Holders(game, "MORDRED") = 1
    /\ Holders(game, "MINION") = 1
    /\ Holders(game, "SERVANT") = 4
    /\ game.roles_assigned[game.merlin_id] = "MERLIN"

\* the entries of a list, as a set
Entries(list) == {list[i] : i \in DOMAIN list}

\* the ids of the players whose assigned role is of the evil team
EvilIds(g) ==
    {uid \in user_ids(g) :
        uid \in DOMAIN g.roles_assigned
          /\ ROLES[g.roles_assigned[uid]].team = "evil"}

\* the ids of the players that hold the role
IdsOf(g, role) ==
    {uid \in user_ids(g) :
        uid \in DOMAIN g.roles_assigned /\ g.roles_assigned[uid] = role}

\* C13: what Merlin is told lists exactly the evil players whose role is
\* not Mordred, each once: never the holder of Mordred, never Merlin, never
\* a good player, and no other evil player is left out.
C13_MerlinSeesEvilButMordred ==
    \A user_id \in IdsOf(game, "MERLIN"), reversed \in BOOLEAN :
        LET info  == get_role_info_for_player(game, user_id, reversed)
            shown == EvilIds(game) \ IdsOf(game, "MORDRED")
        IN  /\ "known_evil" \in DOMAIN info
            /\ Entries(info.known_evil) = {username(uid) : uid \in shown}
            /\ Len(info.known_evil) = Cardinality(shown)
            /\ \A uid \in user_ids(game) :
                   (uid \in IdsOf(game, "MORDRED") \/ uid \notin EvilIds(game))
                       => username(uid) \notin Entries(info.known_evil)

\* C13 witness: in a match with Mordred, Merlin is told the two other evil
\* players
C13_Witness ==
    /\ game.state # "lobby"
    /\ Cardinality(IdsOf(game, "MORDRED")) = 1
    /\ Cardinality(EvilIds(game)) = 3
    /\ Len(get_role_info_for_player(game, game.merlin_id, FALSE).known_evil) = 2

\* the match with the roles of Merlin and Morgana exchanged between their
\* two holders
SwapMerlinMorgana(g) ==
    LET other(role) == IF role = "MERLIN" THEN "MORGANA"
                       ELSE IF role = "MORGANA" THEN "MERLIN" ELSE role
        swapped == [i \in DOMAIN g.players |->
                       IF g.players[i].role \notin {"MERLIN", "MORGANA"}
                       THEN g.players[i]
                       ELSE [user_id |-> g.players[i].user_id,
                             role    |-> other(g.players[i].role),
                             team    |-> ROLES[other(g.players[i].role)].team]]
    IN  [g EXCEPT
           !.players        = swapped,
           !.roles_assigned =
               [uid \in DOMAIN g.roles_assigned |-> other(g.roles_assigned[uid])],
           !.merlin_id      = CHOOSE uid \in IdsOf(g, "MORGANA") : TRUE]

\* C14: in a match with a Percival, the pair Percival is told is, as a set,
\* the holder of Merlin and the holder of Morgana, in whatever order it is
\* listed; it is the same set when the two holders exchange their roles.
C14_PercivalSeesThePair ==
    \A user_id \in IdsOf(game, "PERCIVAL"), reversed \in BOOLEAN :
        LET info == get_role_info_for_player(game, user_id, reversed)
            pair == IdsOf(game, "MERLIN") \cup IdsOf(game, "MORGANA")
        IN  /\ "merlin_morgana" \in DOMAIN info
            /\ Cardinality(pair) = 2
            /\ Len(info.merlin_morgana) = 2
            /\ Entries(info.merlin_morgana) = {username(uid) : uid \in pair}
            /\ \A again \in BOOLEAN :
                   Entries(get_role_info_for_player(
                               SwapMerlinMorgana(game), user_id, again)
                             .merlin_morgana)
                       = Entries(info.merlin_morgana)

\* C14 witness: Percival is told Morgana's name before Merlin's in one
\* order and after it in the other
C14_Witness ==
    /\ game.state # "lobby"
    /\ \E user_id \in IdsOf(game, "PERCIVAL") :
          LET one == get_role_info_for_player(game, user_id, FALSE).merlin_morgana
              two == get_role_info_for_player(game, user_id, TRUE).merlin_morgana
          IN  /\ one[1] = username(game.merlin_id)
              /\ two[2] = username(game.merlin_id)
              /\ one[2] = two[1]
              /\ one[2] # one[1]

\* C15: what an evil player (Assassin, Morgana, Mordred or Minion) is told
\* lists exactly the other evil players, each once with its own role, and
\* no good player; Mordred is among those the other evil players are told.
C15_EvilKnowEachOther ==
    \A user_id \in EvilIds(game), reversed \in BOOLEAN :
        LET info   == get_role_info_for_player(game, user_id, reversed)
            others == EvilIds(game) \ {user_id}
        IN  /\ game.roles_assigned[user_id] \in
                   {"ASSASSIN", "MORGANA", "MORDRED", "MINION"}
            /\ "evil_teammates" \in DOMAIN info
            /\ Len(info.evil_teammates) = Cardinality(others)
            /\ Entries(info.evil_teammates) =
                   {<<username(uid), ROLES[game.roles_assigned[uid]].name>> :
                       uid \in others}
            /\ \A uid \in IdsOf(game, "MORDRED") \ {user_id} :
                   <<username(uid), "Mordred">> \in Entries(info.evil_teammates)

\* C15 witness: the Assassin of a ten-player match is told the three other
\* evil players, Mordred among them
C15_Witness ==
    /\ game.state # "lobby"
    /\ Len(game.players) = 10
    /\ LET told == get_role_info_for_player(game, game.assassin_id, FALSE)
                      .evil_teammates
       IN  /\ Len(told) = 3
           /\ \E i \in DOMAIN told : told[i][2] = "Mordred"
           /\ \E i \in DOMAIN told : told[i][2] = "Minion of Mordred"

\* C16: a call of add_player, remove_player, assign_roles, propose_team,
\* vote_team, vote_mission or assassinate that reports failure leaves every
\* field of the match as it was.
C16_FailureChangesNothing ==
    /\ \A user_id \in Callers(game) :
          /\ ~add_player(game, user_id).ok =>
                 add_player(game, user_id).g = game
          /\ ~remove_player(game, user_id).ok =>
                 remove_player(game, user_id).g = game
          /\ \A ballot \in BOOLEAN :
                /\ ~vote_team(game, user_id, ballot).ok =>
                       vote_team(game, user_id, ballot).g = game
                /\ ~vote_mission(game, user_id, ballot).ok =>
                       vote_mission(game, user_id, ballot).g = game
          /\ \A team_user_ids \in TeamsTried(game) :
                ~propose_team(game, user_id, team_user_ids).ok =>
                    propose_team(game, user_id, team_user_ids).g = game
          /\ \A target_id \in Callers(game) :
                ~assassinate(game, user_id, target_id).ok =>
                    assassinate(game, user_id, target_id).g = game
    /\ \A shuffled \in Shuffles(game) :
          ~assign_roles(game, shuffled).ok =>
              assign_roles(game, shuffled).g = game

\* C16 witness: a mission is under way with a ballot on record, and a
\* proposal, a team ballot, a departure, an assassination and a good
\* member's Fail ballot are all refused
C16_Witness ==
    /\ game.state = "mission"
    /\ game.mission_votes # << >>
    /\ ~propose_team(game, get_current_leader(game).user_id,
                     game.proposed_team).ok
    /\ ~vote_team(game, game.players[1].user_id, TRUE).ok
    /\ ~remove_player(game, game.players[1].user_id).ok
    /\ ~assassinate(game, game.assassin_id, game.merlin_id).ok
    /\ \E user_id \in user_ids(game) :
           /\ Holds(game.proposed_team, user_id)
           /\ ~vote_mission(game, user_id, FALSE).ok

\* C17: a team ballot delivered after the tally of the proposal it was cast
\* for is refused or ignored: it is not recorded, is not counted for a
\* later proposal and moves nothing.  Here the tally rejects, the next
\* leader proposes, and a player who voted on the first proposal has that
\* ballot delivered once more.
C17_LateBallotIgnored ==
    game.state = "team_voting" =>
        \A user_id \in user_ids(game), approve \in BOOLEAN :
            LET g1 == vote_team(game, user_id, approve).g
            IN  g1.state = "team_proposal" =>
                  \A late \in DOMAIN g1.team_votes :
                      LET g2 == propose_team(g1, get_current_leader(g1).user_id,
                                    Window(g1, g1.current_leader_index,
                                           get_mission_size(g1))).g
                      IN  /\ vote_team(g1, late, g1.team_votes[late]).g = g1
                          /\ g2.state = "team_voting"
                          /\ vote_team(g2, late, g1.team_votes[late]).g = g2

\* C18: in TeamVoting before the tally, a player who votes again overwrites
\* the own ballot and does not add one: the same value twice is the same as
\* once, and only the last value is left to be counted.
C18_RevoteOverwrites ==
    game.state = "team_voting" =>
        \A user_id \in user_ids(game), first \in BOOLEAN, last \in BOOLEAN :
            LET r1 == vote_team(game, user_id, first)
                r2 == vote_team(r1.g, user_id, last)
            IN  r1.g.state = "team_voting" =>
                  /\ r2.ok
                  /\ Cardinality(DOMAIN r2.g.team_votes) =
                         Cardinality(DOMAIN r1.g.team_votes)
                  /\ r2.g.team_votes[user_id] = last
                  /\ first = last => r2.g = r1.g
                  /\ r2.g = vote_team(game, user_id, last).g

\* C18 witness: several ballots are in, and the last voter's ballot can be
\* turned around without a change of the count or the phase
C18_Witness ==
    /\ game.state = "team_voting"
    /\ Cardinality(DOMAIN game.team_votes) >= 2
    /\ \E user_id \in DOMAIN game.team_votes :
          LET r == vote_team(game, user_id, ~game.team_votes[user_id])
          IN  /\ r.ok
              /\ r.g.state = "team_voting"
              /\ DOMAIN r.g.team_votes = DOMAIN game.team_votes
              /\ r.g.team_votes[user_id] # game.team_votes[user_id]

\* C19: from a freshly started match of N in 5..10 players (phase
\* TeamProposal, round 1, leader 0, streak 0, all missions Pending): the
\* leader proposes a team of the table's size, all N players approve and
\* every member votes Success; then mission 1 is Succeeded, the other four
\* are Pending, the phase is TeamProposal, the round is 2 and the leader 1.
C19_FirstRound ==
    game.state = "lobby" =>
        \A shuffled \in ShufflesOfStart(game) :
            LET r == assign_roles(game, shuffled)
                N == Len(game.players)
            IN  r.ok =>
                  /\ N \in 5..10
                  /\ r.g.state = "team_proposal"
                  /\ r.g.current_round = 1
                  /\ r.g.current_leader_index = 0
                  /\ r.g.vote_track = 0
                  /\ \A i \in 1..5 : r.g.missions[i] = "pending"
                  /\ \A o \in 0 .. N - 1 :
                        LET team == Window(r.g, o, MISSION_SIZES[N][1])
                            g1 == propose_team(r.g, r.g.players[1].user_id,
                                               team)
                            g2 == CastTeam(g1.g, 1, TRUE)
                            g3 == CastMission(g2, team, 1, FALSE)
                        IN  /\ g1.ok
                            /\ g2.state = "mission"
                            /\ g3.missions = <<"success", "pending", "pending",
                                               "pending", "pending">>
                            /\ g3.state = "team_proposal"
                            /\ g3.current_round = 2
                            /\ g3.current_leader_index = 1

\* C19 witness: ten players have approved the first team, its members have
\* all voted Success, and the second round waits for its proposal
C19_Witness ==
    /\ Len(game.players) = 10
    /\ game.state = "team_proposal"
    /\ game.current_round = 2
    /\ game.current_leader_index = 1
    /\ game.missions[1] = "success"
    /\ CountValues(game.team_votes, TRUE) = 10
    /\ CountValues(game.mission_votes, TRUE) = 3

\* C20: remove_player outside the lobby fails and leaves the roster as it
\* was; in the lobby it removes the player with that id, and only that
\* player, and the others keep their order.
C20_LeaveOnlyInLobby ==
    \A user_id \in Callers(game) :
        LET r    == remove_player(game, user_id)
            N    == Len(game.players)
            seat == {i \in 1..N : game.players[i].user_id = user_id}
        IN  /\ game.state # "lobby" => ~r.ok /\ r.g = game
            /\ game.state = "lobby" =>
                  /\ r.ok
                  /\ Len(r.g.players) = N - Cardinality(seat)
                  /\ \A i \in 1..Len(r.g.players) :
                         r.g.players[i] =
                             game.players[IF \E k \in seat : k <= i
                                          THEN i + 1 ELSE i]
                  /\ r.g = [game EXCEPT !.players = r.g.players]

\* C20 witness: three players or more are in the lobby, and the departure
\* of the second leaves the first and the third next to each other
C20_Witness ==
    /\ game.state = "lobby"
    /\ Len(game.players) >= 3
    /\ LET r == remove_player(game, game.players[2].user_id)
       IN  /\ r.ok
           /\ Len(r.g.players) = Len(game.players) - 1
           /\ r.g.players[1] = game.players[1]
           /\ r.g.players[2] = game.players[3]

\* the phase changes the lifecycle has
PhaseEdges ==
    {<<"lobby", "team_proposal">>, <<"team_proposal", "team_voting">>,
     <<"team_voting", "mission">>, <<"team_voting", "team_proposal">>,
     <<"team_voting", "finished">>, <<"mission", "team_proposal">>,
     <<"mission", "assassination">>, <<"mission", "finished">>,
     <<"assassination", "finished">>}

\* C21: the phase changes only along the edges Lobby -> TeamProposal,
\* TeamProposal -> TeamVoting, TeamVoting -> Mission | TeamProposal |
\* Finished, Mission -> TeamProposal | Assassination | Finished and
\* Assassination -> Finished; the lobby is never entered again.
C21_PhaseEdgesOnly ==
    [][game'.state # game.state =>
           <<game.state, game'.state>> \in PhaseEdges]_vars

\* C22: Finished is absorbing: once the phase is Finished no operation
\* changes any field of the match, and the winner stays the same.
C22_FinishedIsAbsorbing ==
    game.state = "finished" =>
        /\ \A user_id \in Callers(game) :
              /\ add_player(game, user_id).g = game
              /\ remove_player(game, user_id).g = game
              /\ \A ballot \in BOOLEAN :
                    /\ vote_team(game, user_id, ballot).g = game
                    /\ vote_mission(game, user_id, ballot).g = game
              /\ \A team_user_ids \in TeamsTried(game) :
                    propose_team(game, user_id, team_user_ids).g = game
              /\ \A target_id \in Callers(game) :
                    assassinate(game, user_id, target_id).g = game
        /\ \A shuffled \in Shuffles(game) :
              /\ assign_roles(game, shuffled).g = game
              /\ get_game_winner(assign_roles(game, shuffled).g) =
                     get_game_winner(game)

\* C23: in every reachable state the team ballots are those of seated
\* players and the mission ballots are those of members of the proposed
\* team, also after the mission has resolved and the team was cleared.
C23_BallotsOfTheTeam ==
    /\ DOMAIN game.team_votes \subseteq user_ids(game)
    /\ DOMAIN game.mission_votes \subseteq Entries(game.proposed_team)

\* C24: a mission result that is Succeeded or Failed never changes again.
C24_ResultsWrittenOnce ==
    [][\A i \in 1..5 :
           game.missions[i] # "pending" =>
               game'.missions[i] = game.missions[i]]_vars

\* C25: in every reachable state every mission before the round has a
\* result, every mission after the round is Pending, and the mission of the
\* round has a result only in the phases Assassination and Finished.
C25_ResultsAreAPrefix ==
    /\ \A i \in 1..5 :
          /\ i < game.current_round => game.missions[i] # "pending"
          /\ i > game.current_round => game.missions[i] = "pending"
    /\ game.current_round \in 1..5
    /\ game.missions[game.current_round] # "pending" =>
           game.state \in {"assassination", "finished"}

\* C26: in the phases TeamVoting and Mission the proposed team has the size
\* of the table for (N, round), N being the number of players seated.
C26_TeamOfTableSize ==
    game.state \in {"team_voting", "mission"} =>
        Len(game.proposed_team) =
            MISSION_SIZES[Len(game.players)][game.current_round]

\* C27: the proposed team is empty in every reachable state of the phases
\* Lobby, TeamProposal, Assassination and Finished.
C27_NoTeamOutsideItsPhases ==
    game.state \notin {"team_voting", "mission"} =>
        game.proposed_team = << >>

\* C28: the round stays within 1..5 in every reachable state and no call
\* starts a sixth round, so get_mission_size and the double-fail test read
\* inside their tables: after five resolved missions one side has three.
C28_RoundWithinFive ==
    /\ game.current_round \in 1..5
    /\ game.current_round \in DOMAIN game.missions
    /\ game.state # "lobby" =>
           /\ Len(game.players) \in DOMAIN MISSION_SIZES
           /\ game.current_round \in
                  DOMAIN MISSION_SIZES[Len(game.players)]
    /\ \A user_id \in Callers(game), success \in BOOLEAN :
          LET r == vote_mission(game, user_id, success)
          IN  /\ r.g.current_round \in 1..5
              /\ ( /\ game.current_round = 5
                   /\ r.g.missions # game.missions ) =>
                     /\ r.g.current_round = 5
                     /\ r.g.state \in {"assassination", "finished"}
                     /\ \/ CountMissions(r.g, "success") >= 3
                        \/ CountMissions(r.g, "fail") >= 3

\* C28 witness: the fifth mission has been resolved
C28_Witness ==
    /\ game.current_round = 5
    /\ game.missions[5] # "pending"
    /\ game.state \in {"assassination", "finished"}
    /\ CountMissions(game, "success") + CountMissions(game, "fail") = 5

\* the leader of h is the seat after the leader of g
LeaderAdvanced(g, h) ==
    h.current_leader_index = (g.current_leader_index + 1) % Len(g.players)

\* C29: the leader index advances by one seat modulo N when a proposal is
\* rejected below the fifth rejection and when a mission is resolved and
\* another round follows, and no other call changes it (no proposal, no
\* ballot, no approval, no join, no assassination); four rejections and an
\* approval of the fifth proposal move the leader four seats and leave the
\* rejection streak at 0.
C29_LeaderAdvances ==
    /\ \A user_id \in Callers(game) :
          /\ add_player(game, user_id).g.current_leader_index =
                 game.current_leader_index
          /\ remove_player(game, user_id).g.current_leader_index =
                 game.current_leader_index
          /\ \A team_user_ids \in TeamsTried(game) :
                propose_team(game, user_id, team_user_ids).g
                    .current_leader_index = game.current_leader_index
          /\ \A target_id \in Callers(game) :
                assassinate(game, user_id, target_id).g
                    .current_leader_index = game.current_leader_index
          /\ \A ballot \in BOOLEAN :
                LET tv == vote_team(game, user_id, ballot)
                    mv == vote_mission(game, user_id, ballot)
                IN  /\ IF /\ tv.g.vote_track = game.vote_track + 1
                          /\ tv.g.state # "finished"
                       THEN LeaderAdvanced(game, tv.g)
                       ELSE tv.g.current_leader_index =
                                game.current_leader_index
                    /\ IF /\ mv.g.missions # game.missions
                          /\ mv.g.current_round = game.current_round + 1
                       THEN LeaderAdvanced(game, mv.g)
                       ELSE mv.g.current_leader_index =
                                game.current_leader_index
    /\ \A shuffled \in Shuffles(game) :
          assign_roles(game, shuffled).g.current_leader_index =
              game.current_leader_index
    /\ (game.state = "team_proposal" /\ game.vote_track = 0) =>
          LET g4 == AfterRejections(game, 4)
              g5 == CastTeam(propose_team(g4, get_current_leader(g4).user_id,
                                          TeamFor(g4, FALSE)).g, 1, TRUE)
          IN  /\ g4.vote_track = 4
              /\ g4.current_leader_index =
                     (game.current_leader_index + 4) % Len(game.players)
              /\ g5.state = "mission"
              /\ g5.vote_track = 0
              /\ g5.current_leader_index = g4.current_leader_index

\* C29 witness: the fifth proposal of the first round has been approved
\* after four rejections
C29_Witness ==
    /\ game.state = "mission"
    /\ game.current_round = 1
    /\ game.vote_track = 0
    /\ game.current_leader_index = 4 % Len(game.players)
    /\ Cardinality(DOMAIN game.team_votes) = Len(game.players)
    /\ CountValues(game.team_votes, TRUE) >= (Len(game.players) \div 2) + 1

\* C30: the phase leaves TeamVoting only in a step after which every seated
\* player has a team ballot, and leaves Mission only in a step after which
\* every member of the proposed team has a mission ballot.
C30_TallyOnlyWhenComplete ==
    [][/\ (game.state = "team_voting" /\ game'.state # "team_voting") =>
              DOMAIN game'.team_votes = user_ids(game')
       /\ (game.state = "mission" /\ game'.state # "mission") =>
              DOMAIN game'.mission_votes = Entries(game.proposed_team)]_vars

\* one delivery more: every state of S with one of its outstanding team
\* ballots cast, whoever casts it
RECURSIVE TeamBallotsInAnyOrder(_, _)
TeamBallotsInAnyOrder(S, ballot) ==
    IF \A s \in S : s.left = {} THEN {s.g : s \in S}
    ELSE TeamBallotsInAnyOrder(
           UNION {{[g    |-> vote_team(s.g, u, ballot[u]).g,
                    left |-> s.left \ {u}] : u \in s.left} : s \in S},
           ballot)

RECURSIVE MissionBallotsInAnyOrder(_, _)
MissionBallotsInAnyOrder(S, ballot) ==
    IF \A s \in S : s.left = {} THEN {s.g : s \in S}
    ELSE MissionBallotsInAnyOrder(
           UNION {{[g    |-> vote_mission(s.g, u, ballot[u]).g,
                    left |-> s.left \ {u}] : u \in s.left} : s \in S},
           ballot)

\* the first k seats approve and the others reject, or the other way round
SplitBallots(g) ==
    {[u \in user_ids(g) |->
         (\E i \in 1..k : g.players[i].user_id = u) = approve] :
       k \in 0 .. Len(g.players), approve \in BOOLEAN}

\* C31: for a proposal and one ballot per player, every order in which the
\* team ballots arrive gives the same state, and for a team and one ballot
\* per member every order in which the mission ballots arrive gives the same
\* state (the same result, phase, round, leader and rejection streak).
C31_OrderOfBallots ==
    /\ (game.state = "team_voting" /\ game.team_votes = << >>) =>
          \A ballot \in SplitBallots(game) :
              Cardinality(TeamBallotsInAnyOrder(
                  {[g |-> game, left |-> user_ids(game)]}, ballot)) = 1
    /\ (game.state = "mission" /\ game.mission_votes = << >>) =>
          \A ballot \in [Entries(game.proposed_team) -> BOOLEAN] :
              Cardinality(MissionBallotsInAnyOrder(
                  {[g |-> game, left |-> Entries(game.proposed_team)]},
                  ballot)) = 1

\* C31 witness: a split team vote has been tallied and its mission is open
C31_Witness ==
    /\ game.state = "mission"
    /\ game.mission_votes = << >>
    /\ DOMAIN game.team_votes = user_ids(game)
    /\ \E u \in DOMAIN game.team_votes : ~game.team_votes[u]
    /\ Len(game.proposed_team) >= 3

\* C33: the proposed team never names a player twice: a proposal with a
\* repeated member is refused, so an accepted team has as many distinct
\* members as the table says.
C33_TeamOfDistinctMembers ==
    /\ Cardinality(Entries(game.proposed_team)) = Len(game.proposed_team)
    /\ \A leader_id \in Callers(game), team_user_ids \in TeamsTried(game) :
          (\E i, j \in DOMAIN team_user_ids :
               i # j /\ team_user_ids[i] = team_user_ids[j]) =>
              ~propose_team(game, leader_id, team_user_ids).ok

\* C34: the match is never in the phase Mission with a mission ballot held
\* for every member of the proposed team: the ballot that completes the set
\* resolves the mission.
C34_MissionResolves ==
    game.state = "mission" =>
        ~(Entries(game.proposed_team) \subseteq DOMAIN game.mission_votes)

\* C36: in the phase Finished get_game_winner returns good or evil, and in
\* every other phase it returns no winner.
C36_WinnerIffFinished ==
    IF game.state = "finished"
    THEN get_game_winner(game) \in {"good", "evil"}
    ELSE get_game_winner(game) = None

\* C36 witness: a match ended by the fifth rejection in a row, with fewer
\* than three missions failed
C36_Witness ==
    /\ game.state = "finished"
    /\ game.vote_track >= 5
    /\ CountMissions(game, "fail") < 3
    /\ get_game_winner(game) = "evil"

\* C38: what a Servant is told is the same in the match and in any other
\* deal of the roles to the roster in which that player is a Servant (the
\* other deals are the rotations of the roles round the table): the own role and
\* team and nothing about anyone else. (get_role_info_for_player assigns
\* nothing in the match: it is an operator of the match.)
C38_ServantLearnsNothing ==
    game.state # "lobby" =>
        \A k \in 0 .. Len(game.players) - 1 :
            LET other == assign_roles(game, Rotation(Len(game.players), k)).g
            IN  \A user_id \in user_ids(game), r1 \in BOOLEAN, r2 \in BOOLEAN :
                    ( /\ player_of(game, user_id).role = "SERVANT"
                      /\ player_of(other, user_id).role = "SERVANT" ) =>
                        /\ get_role_info_for_player(game, user_id, r1) =
                               get_role_info_for_player(other, user_id, r2)
                        /\ get_role_info_for_player(game, user_id, r1) =
                               [role |-> "SERVANT", team |-> "good"]

\* C38 witness: a player is a Servant in the match and in another deal of
\* the roles in which the evil players are not the same
C38_Witness ==
    /\ game.state # "lobby"
    /\ \E k \in 0 .. Len(game.players) - 1, user_id \in user_ids(game) :
          LET other == assign_roles(game, Rotation(Len(game.players), k)).g
          IN  /\ player_of(game, user_id).role = "SERVANT"
              /\ player_of(other, user_id).role = "SERVANT"
              /\ EvilIds(other) # EvilIds(game)
              /\ other.merlin_id # game.merlin_id

\* C39: once the roles are assigned merlin_id is the id of the only Merlin
\* and assassin_id the id of the only Assassin, both are seated and they are
\* two players; this holds in every later state of the match.
C39_CachedIds ==
    game.state # "lobby" =>
        /\ IdsOf(game, "MERLIN") = {game.merlin_id}
        /\ IdsOf(game, "ASSASSIN") = {game.assassin_id}
        /\ {game.merlin_id, game.assassin_id} \subseteq user_ids(game)
        /\ game.merlin_id # game.assassin_id
        /\ player_of(game, game.merlin_id).role = "MERLIN"
        /\ player_of(game, game.assassin_id).role = "ASSASSIN"

\* C39 witness: a match dealt with Merlin away from the first seat has been
\* played to its end
C39_Witness ==
    /\ game.state = "finished"
    /\ game.merlin_id # game.players[1].user_id
    /\ IdsOf(game, "MERLIN") = {game.merlin_id}
    /\ IdsOf(game, "ASSASSIN") = {game.assassin_id}

\* C35: if the leader keeps proposing accepted teams of distinct members,
\* every player casts the ballots expected and the assassin names a seated
\* player, a started match reaches Finished; no mission is resolved twice (so
\* at most 5 are resolved) and no mission has a sixth proposal.
C35_MatchEnds ==
    /\ <>(game.state = "finished")
    /\ [](game.current_round \in 1..5 /\ game.vote_track \in 0..5)
    /\ [][/\ game'.missions # game.missions =>
                 /\ game.missions[game.current_round] = "pending"
                 /\ game'.missions[game.current_round] # "pending"
          /\ (game.state = "team_proposal" /\ game'.state = "team_voting") =>
                 game.vote_track <= 4]_vars

\* C35 witness: a match has ended with its fifth mission
C35_Witness ==
    /\ game.state = "finished"
    /\ game.current_round = 5
    /\ CountMissions(game, "success") + CountMissions(game, "fail") = 5

\* C32: when a match is Finished and no handler is left to run, the channel
\* has no entry in active_games, so that /avalon_start is accepted again.
C32_FinishedIsUnregistered ==
    (game.state = "finished" /\ pending = {}) =>
        channel_id \notin active_games

\* C37: the rest of a mission vote handler, process_mission_vote_results,
\* leaves the missions, the round, the leader and the phase as the tally of
\* vote_mission left them, whatever ran in between: the phase does not go
\* from Finished back to Assassination.
C37_ResultsChangeNothing ==
    [][(pending' # pending /\ pending' \subseteq pending
          /\ active_games' = active_games) =>
           /\ game'.missions = game.missions
           /\ game'.current_round = game.current_round
           /\ game'.current_leader_index = game.current_leader_index
           /\ game'.state = game.state]_vars

====
